---- MODULE Spec2Model ----
(***************************************************************************)
(* A model of src/src/listen/types.py (LISTEN.tui): the normalisation of   *)
(* raw listen.moe records into Song / SystemFeed / ListenWsData values and *)
(* the display helpers of Song.                                            *)
(*                                                                         *)
(* Encoding.                                                               *)
(*   - a Python `str` is a sequence of characters, each character a TLA+   *)
(*     string token ("U3099" is the code point U+3099);                    *)
(*   - an optional value is a sequence of length 0 (None, or a key that a  *)
(*     dict does not hold) or of length 1 (the value);                     *)
(*   - a raw dict is a record whose fields are the keys the code reads,    *)
(*     each an optional value;                                             *)
(*   - a call that may raise returns [err |-> kind, val |-> result].       *)
(* The `link` fields the dataclasses derive in __post_init__ are left out: *)
(* nothing modelled here reads them.                                       *)
(***************************************************************************)
EXTENDS Integers, Sequences, FiniteSets, TLC

VARIABLES
    now,        \* the reading of time(), in 1/ClockRes seconds
    data,       \* the raw song record handed to Song.from_data
    song,       \* the Song the last Song.from_data returned (optional)
    err,        \* what the last from_data call raised ("none" when it returned)
    calledAt,   \* the clock reading the last Song.from_data took
    call,       \* the last display method called on `song`, with its arguments
    out,        \* what that method returned (optional str)
    word,       \* the argument of Song._sanitise
    once,       \* <<Song._sanitise(word)>> once it was called, <<>> before
    twice,      \* <<Song._sanitise(Song._sanitise(word))>> once it was called
    prev,       \* calledAt and time_end of the Song returned before `song` (optional)
    frame,      \* the raw websocket record handed to ListenWsData.from_data
    ws,         \* the ListenWsData the last call returned (optional)
    wsErr,      \* what that call raised ("none" when it returned)
    feedData,   \* the raw feed record handed to SystemFeed.from_data
    feed,       \* the SystemFeed the last call returned (optional)
    feedErr     \* what that call raised ("none" when it returned)

vars == <<now, data, song, err, calledAt, prev, call, out, word, once, twice,
          frame, ws, wsErr, feedData, feed, feedErr>>

----------------------------------------------------------------------------
(* Bounds of the model *)

ClockRes == 2        \* clock readings per second
MaxClock == 3        \* the clock stops advancing at this reading
MaxWordLen == 3      \* longest raw string given to _sanitise and to the name fields
MaxDuration == 2     \* longest raw duration, in seconds
MaxArtists == 2      \* longest raw artist list of the display inputs
MaxChars == 2        \* longest raw character list of the display inputs
MaxPlaceholders == 2 \* longest character list attached to one raw artist
MaxCharId == 2       \* character ids are 1..MaxCharId
MaxItems == 2        \* longest source / album list of the display and image inputs
MaxHistory == 3      \* longest lastPlayed list of a websocket record
MaxSongId == 2       \* song ids of the websocket and feed records are 1..MaxSongId

----------------------------------------------------------------------------
(* Python values *)

None == <<>>
Some(x) == <<x>>
IsNone(o) == Len(o) = 0
Get(o) == o[1]

\* bool(x) of an optional str or list: None, "" and [] are falsy
Truthy(o) == Len(o) = 1 /\ Len(o[1]) > 0

\* bool(x) of an optional int: None and 0 are falsy
TruthyInt(o) == Len(o) = 1 /\ o[1] # 0

RECURSIVE StrReplace(_, _, _)
\* str.replace(old, new) for a one-character `old`
StrReplace(s, old, new) ==
    IF s = <<>> THEN <<>>
    ELSE (IF Head(s) = old THEN new ELSE <<Head(s)>>) \o StrReplace(Tail(s), old, new)

RECURSIVE StrJoin(_, _)
\* sep.join(lst)
StrJoin(sep, lst) ==
    IF lst = <<>> THEN <<>>
    ELSE IF Len(lst) = 1 THEN lst[1]
    ELSE lst[1] \o sep \o StrJoin(sep, Tail(lst))

----------------------------------------------------------------------------
(* Link.from_name *)

CdnPath(type) ==
    CASE type = "albums"  -> <<"https://cdn.listen.moe", "/covers/">>
      [] type = "artists" -> <<"https://cdn.listen.moe", "/artists/">>
      [] type = "sources" -> <<"https://cdn.listen.moe", "/source/">>

Link_from_name(type, value) ==
    IF ~Truthy(value) THEN None
    ELSE Some([name |-> Get(value), url |-> CdnPath(type) \o Get(value)])

----------------------------------------------------------------------------
(* Song._sanitise and the _get_* helpers *)

\* a variant that leaves the zero-width spaces in
Song_sanitise_keeping_zero_width(w) ==
    IF ~Truthy(w) THEN None
    ELSE Some(StrReplace(StrReplace(Get(w), "U3099", <<"U309B">>), "U309A", <<"U309C">>))

Song_sanitise(w) ==
    IF ~Truthy(w) THEN None
    ELSE Some(StrReplace(StrReplace(StrReplace(Get(w),
                 "U3099", <<"U309B">>), "U309A", <<"U309C">>), "U200B", <<>>))

Song_get_title(d) ==
    IF Truthy(d.title) THEN Song_sanitise(d.title) ELSE d.title

Ok(v) == [err |-> "none", val |-> v]
Raise(kind) == [err |-> kind, val |-> None]

RECURSIVE FirstErr(_)
\* the first exception a list comprehension raises, "none" if none: errs[i] is
\* what building its i-th element raises
FirstErr(errs) ==
    IF errs = <<>> THEN "none"
    ELSE IF Head(errs) # "none" THEN Head(errs)
    ELSE FirstErr(Tail(errs))

\* item['id'] raises KeyError when the key is missing
IdErr(item) == IF IsNone(item.id) THEN "KeyError" ELSE "none"

IdErrs(items) == [i \in 1..Len(items) |-> IdErr(items[i])]

\* a variant that sanitises the romanized name of a source too
MkSourceSanitisingRomaji(s) ==
    [id |-> Get(s.id),
     name |-> Song_sanitise(s.name),
     name_romaji |-> Song_sanitise(s.nameRomaji),
     image |-> Link_from_name("sources", s.image)]

MkSource(s) ==
    [id |-> Get(s.id),
     name |-> Song_sanitise(s.name),
     name_romaji |-> s.nameRomaji,
     image |-> Link_from_name("sources", s.image)]

Song_get_sources(d) ==
    IF ~Truthy(d.sources) THEN Ok(None)
    ELSE LET e == FirstErr(IdErrs(Get(d.sources)))
         IN IF e # "none" THEN Raise(e)
            ELSE Ok(Some([i \in 1..Len(Get(d.sources)) |-> MkSource(Get(d.sources)[i])]))

MkAlbum(a) ==
    [id |-> Get(a.id),
     name |-> Song_sanitise(a.name),
     name_romaji |-> Song_sanitise(a.nameRomaji),
     image |-> Link_from_name("albums", a.image)]

Song_get_albums(d) ==
    IF ~Truthy(d.albums) THEN Ok(None)
    ELSE LET e == FirstErr(IdErrs(Get(d.albums)))
         IN IF e # "none" THEN Raise(e)
            ELSE Ok(Some([i \in 1..Len(Get(d.albums)) |-> MkAlbum(Get(d.albums)[i])]))

MkCharacter(c) ==
    [id |-> Get(c.id),
     name |-> Song_sanitise(c.name),
     name_romaji |-> Song_sanitise(c.nameRomaji)]

Song_get_characters(d) ==
    IF ~Truthy(d.characters) THEN Ok(None)
    ELSE LET e == FirstErr(IdErrs(Get(d.characters)))
         IN IF e # "none" THEN Raise(e)
            ELSE Ok(Some([i \in 1..Len(Get(d.characters)) |-> MkCharacter(Get(d.characters)[i])]))

\* Character(character['id']): a placeholder, its names left at their default None
MkPlaceholder(c) == [id |-> Get(c.id), name |-> None, name_romaji |-> None]

\* what building one Artist raises. The keyword arguments are evaluated in order:
\* artist['id'], then the conditional expression, whose condition
\* len(artist.get('characters')) is evaluated first and raises TypeError on None
ArtistErr(a) ==
    IF IsNone(a.id) THEN "KeyError"
    ELSE IF IsNone(a.characters) THEN "TypeError"
    ELSE IF Len(Get(a.characters)) # 0 THEN FirstErr(IdErrs(Get(a.characters)))
    ELSE "none"

MkArtist(a) ==
    [id |-> Get(a.id),
     name |-> Song_sanitise(a.name),
     name_romaji |-> Song_sanitise(a.nameRomaji),
     image |-> Link_from_name("artists", a.image),
     character |-> IF Len(Get(a.characters)) # 0
                   THEN Some([j \in 1..Len(Get(a.characters)) |->
                                 MkPlaceholder(Get(a.characters)[j])])
                   ELSE None]

Song_get_artists(d) ==
    IF ~Truthy(d.artists) THEN Ok(None)
    ELSE LET e == FirstErr([i \in 1..Len(Get(d.artists)) |-> ArtistErr(Get(d.artists)[i])])
         IN IF e # "none" THEN Raise(e)
            ELSE Ok(Some([i \in 1..Len(Get(d.artists)) |-> MkArtist(Get(d.artists)[i])]))

----------------------------------------------------------------------------
(* Song.from_data *)

\* round(x) of x = v / ClockRes seconds: to the nearest integer, a tie to the even one
PyRound(v) ==
    LET q == v \div ClockRes
        r == v % ClockRes
    IN IF 2 * r < ClockRes THEN q
       ELSE IF 2 * r > ClockRes THEN q + 1
       ELSE IF q % 2 = 0 THEN q ELSE q + 1

\* a variant that keeps the time_end of the Song built before
Song_time_end_cached(duration, t) ==
    IF ~IsNone(song) THEN Get(song).time_end
    ELSE IF TruthyInt(duration) THEN PyRound(t + ClockRes * Get(duration))
    ELSE PyRound(t)

\* round(time() + duration) if duration else round(time()), time() reading t
Song_time_end(duration, t) ==
    IF TruthyInt(duration) THEN PyRound(t + ClockRes * Get(duration)) ELSE PyRound(t)

\* the dict literal is evaluated key by key, so the first failing entry decides
\* which exception leaves from_data
Song_from_data(d, t) ==
    LET sources == Song_get_sources(d)
        artists == Song_get_artists(d)
        albums == Song_get_albums(d)
        characters == Song_get_characters(d)
    IN IF IsNone(d.id) THEN Raise("KeyError")
       ELSE IF sources.err # "none" THEN Raise(sources.err)
       ELSE IF artists.err # "none" THEN Raise(artists.err)
       ELSE IF albums.err # "none" THEN Raise(albums.err)
       ELSE IF characters.err # "none" THEN Raise(characters.err)
       ELSE Ok(Some([id |-> Get(d.id),
                     duration |-> d.duration,
                     time_end |-> Song_time_end(d.duration, t),
                     title |-> Song_get_title(d),
                     sources |-> sources.val,
                     artists |-> artists.val,
                     albums |-> albums.val,
                     characters |-> characters.val,
                     played |-> IF TruthyInt(d.played) THEN d.played ELSE None,
                     title_romaji |-> IF Truthy(d.titleRomaji) THEN d.titleRomaji ELSE None]))

----------------------------------------------------------------------------
(* The display methods of Song *)

Sep == <<",", " ">>

\* item.name_romaji if item.name_romaji else item.name, or item.name
ItemName(item, romaji_first) ==
    IF romaji_first
    THEN (IF Truthy(item.name_romaji) THEN item.name_romaji ELSE item.name)
    ELSE item.name

RECURSIVE ListEntries(_, _)
\* lst_string of _list_to_string after its loop
ListEntries(lst, romaji_first) ==
    IF lst = <<>> THEN <<>>
    ELSE LET name == ItemName(Head(lst), romaji_first)
         IN (IF Truthy(name) THEN <<Get(name)>> ELSE <<>>)
            \o ListEntries(Tail(lst), romaji_first)

Song_list_to_string(lst, romaji_first, sep) ==
    IF ~Truthy(lst) THEN None
    ELSE Some(StrJoin(sep, ListEntries(Get(lst), romaji_first)))

\* character_map after the loop over self.characters: a later character of the
\* same id replaces an earlier one; <<>> when the id is not a key
CharacterMapGet(characters, id) ==
    LET hits == {i \in 1..Len(characters) : characters[i].id = id}
    IN IF hits = {} THEN None
       ELSE Some(characters[CHOOSE i \in hits : \A j \in hits : j <= i])

RECURSIVE CharNameAfter(_, _, _, _)
\* char_name after the inner loop over artist.character, entered with char_name
CharNameAfter(placeholders, characters, romaji_first, char_name) ==
    IF placeholders = <<>> THEN char_name
    ELSE LET char == CharacterMapGet(characters, Head(placeholders).id)
         IN CharNameAfter(Tail(placeholders), characters, romaji_first,
                          IF IsNone(char) THEN char_name
                          ELSE ItemName(Get(char), romaji_first))

CvEntry(char_name, name) == char_name \o <<" ", "(", "CV", ":", " ">> \o name \o <<")">>

RECURSIVE ArtistEntries(_, _, _, _)
\* lst_string of artists_to_string after the loop over `artists`, entered with
\* char_name; `characters` is self.characters (optional)
ArtistEntries(artists, characters, romaji_first, char_name) ==
    IF artists = <<>> THEN <<>>
    ELSE LET artist == Head(artists)
             name == ItemName(artist, romaji_first)
             linked == Truthy(characters) /\ Truthy(artist.character)
             cn == IF linked
                   THEN CharNameAfter(Get(artist.character), Get(characters),
                                      romaji_first, char_name)
                   ELSE char_name
             entry == IF linked
                      THEN (IF Truthy(name) /\ Truthy(cn)
                            THEN <<CvEntry(Get(cn), Get(name))>> ELSE <<>>)
                      ELSE (IF Truthy(name) THEN <<Get(name)>> ELSE <<>>)
         IN entry \o ArtistEntries(Tail(artists), characters, romaji_first, cn)

Song_artists_to_string(s, romaji_first, sep) ==
    IF ~Truthy(s.artists) THEN None
    ELSE Some(StrJoin(sep, ArtistEntries(Get(s.artists), s.characters, romaji_first, None)))

Song_sources_to_string(s, romaji_first, sep) ==
    Song_list_to_string(s.sources, romaji_first, sep)

Song_albums_to_string(s, romji_first, sep) ==
    Song_list_to_string(s.albums, romji_first, sep)

RECURSIVE ImageScanSkipping(_, _)
\* a variant of the loop that skips an item without an image and goes on
ImageScanSkipping(items, url) ==
    IF items = <<>> THEN None
    ELSE IF IsNone(Head(items).image) THEN ImageScanSkipping(Tail(items), url)
    ELSE IF url THEN Some(Get(Head(items).image).url)
    ELSE Some(Get(Head(items).image).name)

\* the for loop of _get_image: it breaks at an item without an image and returns
\* at an item with one
ImageScan(items, url) ==
    IF items = <<>> THEN None
    ELSE IF IsNone(Head(items).image) THEN None
    ELSE IF url THEN Some(Get(Head(items).image).url)
    ELSE Some(Get(Head(items).image).name)

Song_get_image(lst, url) ==
    IF ~Truthy(lst) THEN None ELSE ImageScan(Get(lst), url)

Song_artist_image(s, url) == Song_get_image(s.artists, url)
Song_source_image(s, url) == Song_get_image(s.sources, url)
Song_album_image(s, url) == Song_get_image(s.albums, url)

----------------------------------------------------------------------------
(* Requester.from_data, SystemFeed.from_data, ListenWsData.from_data *)

\* a raw requester dict is modelled by the three keys the code reads; it is
\* empty ({}) when it holds none of them
EmptyDict(r) == IsNone(r.uuid) /\ IsNone(r.username) /\ IsNone(r.displayName)

Requester_from_data(d) ==
    IF IsNone(d) \/ EmptyDict(Get(d)) THEN Ok(None)
    ELSE IF IsNone(Get(d).uuid) \/ IsNone(Get(d).username) \/ IsNone(Get(d).displayName)
    THEN Raise("KeyError")
    ELSE Ok(Some([uuid |-> Get(Get(d).uuid),
                  username |-> Get(Get(d).username),
                  display_name |-> Get(Get(d).displayName)]))

SystemFeed_from_data(d, t) ==
    IF IsNone(d.type) \/ IsNone(d.createdAt) \/ IsNone(d.song) THEN Raise("KeyError")
    ELSE LET s == Song_from_data(Get(d.song), t)
         IN IF s.err # "none" THEN Raise(s.err)
            ELSE Ok(Some([type |-> Get(d.type),
                          created_at |-> Get(d.createdAt),
                          song |-> Get(s.val)]))

\* a variant that builds the history from the last raw song to the first
LastPlayedReversed(raw, t) ==
    [i \in 1..Len(raw) |-> Song_from_data(raw[Len(raw) + 1 - i], t)]

\* last_played: the list comprehension over data['d']['lastPlayed']
LastPlayed(raw, t) == [i \in 1..Len(raw) |-> Song_from_data(raw[i], t)]

\* `d` is data['d']; data['op'] and data['t'] are carried in the same record.
\* start_time holds the raw startTime: the datetime parsed from it is not modelled
ListenWsData_from_data(d, t) ==
    IF IsNone(d.op) \/ IsNone(d.t) \/ IsNone(d.startTime) \/ IsNone(d.listeners)
    THEN Raise("KeyError")
    ELSE LET requester == Requester_from_data(d.requester)
             current == IF IsNone(d.song) THEN Raise("KeyError")
                        ELSE Song_from_data(Get(d.song), t)
             history == IF IsNone(d.lastPlayed) THEN <<>>
                        ELSE LastPlayed(Get(d.lastPlayed), t)
             historyErr == IF IsNone(d.lastPlayed) THEN "KeyError"
                           ELSE FirstErr([i \in 1..Len(history) |-> history[i].err])
         IN IF requester.err # "none" THEN Raise(requester.err)
            ELSE IF current.err # "none" THEN Raise(current.err)
            ELSE IF historyErr # "none" THEN Raise(historyErr)
            ELSE Ok(Some([op |-> Get(d.op),
                          t |-> Get(d.t),
                          start_time |-> Get(d.startTime),
                          listener |-> Get(d.listeners),
                          requester |-> requester.val,
                          event |-> d.event,
                          song |-> Get(current.val),
                          last_played |-> [i \in 1..Len(history) |-> Get(history[i].val)]]))

----------------------------------------------------------------------------
(* Raw records the methods are called on *)

Chars == {"a", "U3099", "U309A", "U200B", "U309B"}

\* every str of at most n characters
StringsUpTo(n) == UNION {[1..k -> Chars] : k \in 0..n}

Words == StringsUpTo(MaxWordLen)

RawSong(id, title, titleRomaji, duration, played, sources, artists, albums, characters) ==
    [id |-> id, title |-> title, titleRomaji |-> titleRomaji, duration |-> duration,
     played |-> played, sources |-> sources, artists |-> artists, albums |-> albums,
     characters |-> characters]

RawSub(id, name, nameRomaji, image, characters) ==
    [id |-> id, name |-> name, nameRomaji |-> nameRomaji, image |-> image,
     characters |-> characters]

RawRef(id) == [id |-> id]

\* a sub-record holding every key
FullSub(i) == RawSub(Some(i), Some(<<"n", "U3099">>), Some(<<"r", "U309A">>),
                     Some(<<"i", ".", "p", "n", "g">>), Some(<<>>))

\* a song holding only its id
BareSong(i) == RawSong(Some(i), None, None, None, None, None, None, None, None)

\* every combination of present and absent top-level keys
KeyInputs ==
    {RawSong(id, title, titleRomaji, duration, played, sources, artists, albums, characters) :
        id \in {None, Some(1)},
        title \in {None, Some(<<"t", "U200B">>)},
        titleRomaji \in {None, Some(<<"t", "r">>)},
        duration \in {None, Some(MaxDuration)},
        played \in {None, Some(1)},
        sources \in {None, Some(<<FullSub(1)>>)},
        artists \in {None, Some(<<FullSub(2)>>)},
        albums \in {None, Some(<<FullSub(3)>>)},
        characters \in {None, Some(<<FullSub(4)>>)}}

\* every combination of present and absent keys of one sub-record
SubRecords ==
    {RawSub(id, name, nameRomaji, image, characters) :
        id \in {None, Some(1)},
        name \in {None, Some(<<"n">>)},
        nameRomaji \in {None, Some(<<"r">>)},
        image \in {None, Some(<<>>), Some(<<"i">>)},
        characters \in {None, Some(<<>>), Some(<<RawRef(Some(1))>>), Some(<<RawRef(None)>>)}}

SubKeyInputs ==
    {RawSong(Some(1), None, None, None, None, Some(<<s>>), None, None, None) : s \in SubRecords}
    \cup {RawSong(Some(1), None, None, None, None, None, Some(<<s>>), None, None) : s \in SubRecords}
    \cup {RawSong(Some(1), None, None, None, None, None, None, Some(<<s>>), None) : s \in SubRecords}
    \cup {RawSong(Some(1), None, None, None, None, None, None, None, Some(<<s>>)) : s \in SubRecords}

\* one raw string in the title and in every name of every kind of sub-record
WordSub(i, w) == RawSub(Some(i), Some(w), Some(w), None, Some(<<>>))

WordInputs ==
    {RawSong(Some(1), Some(w), Some(w), None, None, Some(<<WordSub(1, w)>>),
             Some(<<WordSub(2, w)>>), Some(<<WordSub(3, w)>>), Some(<<WordSub(4, w)>>)) :
        w \in Words}

DurationInputs ==
    {RawSong(Some(1), None, None, duration, played, None, None, None, None) :
        duration \in {None} \cup {Some(k) : k \in 0..MaxDuration},
        played \in {None, Some(0), Some(3)}}

NormInputs == KeyInputs \cup SubKeyInputs \cup WordInputs \cup DurationInputs

\* names that tell the entries of a list apart
Digit == <<"1", "2", "3", "4", "5">>

PlaceholderLists == UNION {[1..k -> 1..MaxCharId] : k \in 0..MaxPlaceholders}

ArtistShapes == [n : BOOLEAN, r : BOOLEAN, ph : PlaceholderLists]
NamedArtistShapes == {x \in ArtistShapes : x.n /\ x.r}

\* the i-th artist of a list: names A<i> and a<i>, the characters it voices
RawArtist(i, x) ==
    RawSub(Some(i),
           IF x.n THEN Some(<<"A", Digit[i]>>) ELSE None,
           IF x.r THEN Some(<<"a", Digit[i]>>) ELSE None,
           None,
           Some([j \in 1..Len(x.ph) |-> RawRef(Some(x.ph[j]))]))

ArtistListsOf(shapes) ==
    UNION {{[i \in 1..k |-> RawArtist(i, f[i])] : f \in [1..k -> shapes]} : k \in 0..MaxArtists}

CharShapes == [id : 1..MaxCharId, n : BOOLEAN, r : BOOLEAN]
NamedCharShapes == {x \in CharShapes : x.n /\ x.r}

\* a character of the song: names C<id> and c<id>
RawChar(x) ==
    RawSub(Some(x.id),
           IF x.n THEN Some(<<"C", Digit[x.id]>>) ELSE None,
           IF x.r THEN Some(<<"c", Digit[x.id]>>) ELSE None,
           None, None)

CharListsOf(shapes) ==
    UNION {{[i \in 1..k |-> RawChar(f[i])] : f \in [1..k -> shapes]} : k \in 0..MaxChars}

\* songs of the artists `artistLists` and the characters `charLists`
LinkSongs(artistLists, charLists) ==
    {RawSong(Some(1), None, None, None, None, None, Some(a), None, Some(c)) :
        a \in artistLists, c \in charLists}

ItemShapes == [n : BOOLEAN, r : BOOLEAN, img : {"missing", "empty", "set"}]

\* the i-th source, album or unlinked artist of a list: names N<i> and r<i>
RawItem(i, x) ==
    RawSub(Some(i),
           IF x.n THEN Some(<<"N", Digit[i]>>) ELSE None,
           IF x.r THEN Some(<<"r", Digit[i]>>) ELSE None,
           CASE x.img = "missing" -> None
             [] x.img = "empty" -> Some(<<>>)
             [] x.img = "set" -> Some(<<"i", Digit[i]>>),
           Some(<<>>))

ItemLists ==
    UNION {{[i \in 1..k |-> RawItem(i, f[i])] : f \in [1..k -> ItemShapes]} : k \in 0..MaxItems}

ItemInputs ==
    {RawSong(Some(1), None, None, None, None, Some(l), None, None, None) : l \in ItemLists}
    \cup {RawSong(Some(1), None, None, None, None, None, Some(l), None, None) : l \in ItemLists}
    \cup {RawSong(Some(1), None, None, None, None, None, None, Some(l), None) : l \in ItemLists}

\* the songs of the websocket and feed records
SessionSongs ==
    {BareSong(i) : i \in 1..MaxSongId}
    \cup {RawSong(None, None, None, None, None, None, None, None, None),
          RawSong(Some(1), None, None, None, None, None,
                  Some(<<RawSub(Some(1), None, None, None, None)>>), None, None)}

RawRequester(uuid, username, displayName) ==
    [uuid |-> uuid, username |-> username, displayName |-> displayName]

Requesters ==
    {None,
     Some(RawRequester(None, None, None)),
     Some(RawRequester(Some("u-1"), Some("user"), Some("User"))),
     Some(RawRequester(None, Some("user"), Some("User")))}

RawFrame(op, requester, s, lastPlayed) ==
    [op |-> op, t |-> Some("TRACK_UPDATE"), startTime |-> Some("2024-01-01T00:00:00Z"),
     listeners |-> Some(10), requester |-> requester, event |-> None,
     song |-> s, lastPlayed |-> lastPlayed]

Histories == UNION {[1..k -> SessionSongs] : k \in 0..MaxHistory}

Frames ==
    {RawFrame(Some(1), r, Some(s), Some(h)) :
        r \in Requesters, s \in SessionSongs, h \in Histories}
    \cup {RawFrame(None, None, Some(BareSong(1)), Some(<<>>)),
          RawFrame(Some(1), None, None, Some(<<>>)),
          RawFrame(Some(1), None, Some(BareSong(1)), None)}

FeedInputs ==
    {[type |-> ty, createdAt |-> c, song |-> s] :
        ty \in {None, Some(1)},
        c \in {None, Some("2024-01-01T00:00:00Z")},
        s \in {None} \cup {Some(x) : x \in SessionSongs}}

----------------------------------------------------------------------------
(* The calls *)

NoCall == [op |-> "none", flag |-> FALSE]

songVars == <<data, song, err, calledAt, prev, call, out>>
sanitiseVars == <<word, once, twice>>
sessionVars == <<frame, ws, wsErr, feedData, feed, feedErr>>

\* time passes between two calls
Tick ==
    /\ now < MaxClock
    /\ now' = now + 1
    /\ UNCHANGED <<songVars, sanitiseVars, sessionVars>>

\* song = Song.from_data(data)
FromData ==
    LET r == Song_from_data(data, now)
    IN /\ song' = r.val
       /\ err' = r.err
       /\ calledAt' = now
       /\ prev' = IF IsNone(song) THEN None
                  ELSE Some([calledAt |-> calledAt, time_end |-> Get(song).time_end])
       /\ call' = NoCall
       /\ out' = None
       /\ UNCHANGED <<now, data, sanitiseVars, sessionVars>>

Called(op, flag, result) ==
    /\ call' = [op |-> op, flag |-> flag]
    /\ out' = result
    /\ UNCHANGED <<now, data, song, err, calledAt, prev, sanitiseVars, sessionVars>>

ArtistsToString ==
    /\ ~IsNone(song)
    /\ \E romaji_first \in BOOLEAN :
          Called("artists_to_string", romaji_first,
                 Song_artists_to_string(Get(song), romaji_first, Sep))

SourcesToString ==
    /\ ~IsNone(song)
    /\ \E romaji_first \in BOOLEAN :
          Called("sources_to_string", romaji_first,
                 Song_sources_to_string(Get(song), romaji_first, Sep))

AlbumsToString ==
    /\ ~IsNone(song)
    /\ \E romji_first \in BOOLEAN :
          Called("albums_to_string", romji_first,
                 Song_albums_to_string(Get(song), romji_first, Sep))

ArtistImage ==
    /\ ~IsNone(song)
    /\ \E url \in BOOLEAN : Called("artist_image", url, Song_artist_image(Get(song), url))

SourceImage ==
    /\ ~IsNone(song)
    /\ \E url \in BOOLEAN : Called("source_image", url, Song_source_image(Get(song), url))

AlbumImage ==
    /\ ~IsNone(song)
    /\ \E url \in BOOLEAN : Called("album_image", url, Song_album_image(Get(song), url))

\* once = Song._sanitise(word)
Sanitise ==
    /\ IsNone(once)
    /\ once' = Some(Song_sanitise(word))
    /\ UNCHANGED <<now, songVars, word, twice, sessionVars>>

\* twice = Song._sanitise(once)
SanitiseAgain ==
    /\ ~IsNone(once)
    /\ IsNone(twice)
    /\ twice' = Some(Song_sanitise(Get(once)))
    /\ UNCHANGED <<now, songVars, word, once, sessionVars>>

\* ws = ListenWsData.from_data(frame)
WsFromData ==
    LET r == ListenWsData_from_data(frame, now)
    IN /\ ws' = r.val
       /\ wsErr' = r.err
       /\ UNCHANGED <<now, songVars, sanitiseVars, frame, feedData, feed, feedErr>>

\* feed = SystemFeed.from_data(feedData)
FeedFromData ==
    LET r == SystemFeed_from_data(feedData, now)
    IN /\ feed' = r.val
       /\ feedErr' = r.err
       /\ UNCHANGED <<now, songVars, sanitiseVars, frame, ws, wsErr, feedData>>

----------------------------------------------------------------------------
(* Specifications *)

SongIdle ==
    /\ song = None /\ err = "none" /\ calledAt = -1 /\ prev = None
    /\ call = NoCall /\ out = None

SanitiseIdle == word = None /\ once = None /\ twice = None

IdleFrame == RawFrame(Some(1), None, Some(BareSong(1)), Some(<<>>))
IdleFeed == [type |-> Some(1), createdAt |-> Some("2024-01-01T00:00:00Z"),
             song |-> Some(BareSong(1))]

SessionIdle ==
    /\ frame = IdleFrame /\ ws = None /\ wsErr = "none"
    /\ feedData = IdleFeed /\ feed = None /\ feedErr = "none"

\* normalisation of one raw song, called again as time passes
Init ==
    /\ now = 0
    /\ data \in NormInputs
    /\ SongIdle /\ SanitiseIdle /\ SessionIdle

Next == Tick \/ FromData

Spec == Init /\ [][Next]_vars

\* the name lists of a normalised song
InitDisplay ==
    /\ now = 0
    /\ data \in LinkSongs(ArtistListsOf(ArtistShapes), CharListsOf(NamedCharShapes))
               \cup LinkSongs(ArtistListsOf(NamedArtistShapes), CharListsOf(CharShapes))
               \cup ItemInputs
    /\ SongIdle /\ SanitiseIdle /\ SessionIdle

NextDisplay == FromData \/ ArtistsToString \/ SourcesToString \/ AlbumsToString

SpecDisplay == InitDisplay /\ [][NextDisplay]_vars

\* the images of a normalised song
InitImage ==
    /\ now = 0
    /\ data \in ItemInputs
    /\ SongIdle /\ SanitiseIdle /\ SessionIdle

NextImage == FromData \/ ArtistImage \/ SourceImage \/ AlbumImage

SpecImage == InitImage /\ [][NextImage]_vars

\* Song._sanitise applied once and twice
InitSanitise ==
    /\ now = 0
    /\ data = BareSong(1)
    /\ SongIdle /\ SessionIdle
    /\ word \in {None} \cup {Some(w) : w \in Words}
    /\ once = None /\ twice = None

NextSanitise == Sanitise \/ SanitiseAgain

SpecSanitise == InitSanitise /\ [][NextSanitise]_vars

\* the feed and websocket wrappers
InitSession ==
    /\ now = 0
    /\ data = BareSong(1)
    /\ SongIdle /\ SanitiseIdle
    /\ ws = None /\ wsErr = "none" /\ feed = None /\ feedErr = "none"
    /\ \/ frame \in Frames /\ feedData = IdleFeed
       \/ frame = IdleFrame /\ feedData \in FeedInputs

NextSession == WsFromData \/ FeedFromData

SpecSession == InitSession /\ [][NextSession]_vars

----------------------------------------------------------------------------
(* Properties *)

Lists(d) == <<d.sources, d.artists, d.albums, d.characters>>

\* every present sub-record of the raw song d carries its own id
SubIdsPresent(d) ==
    /\ \A k \in 1..4 : Truthy(Lists(d)[k]) =>
          \A i \in 1..Len(Get(Lists(d)[k])) : ~IsNone(Get(Lists(d)[k])[i].id)
    /\ Truthy(d.artists) =>
          \A i \in 1..Len(Get(d.artists)) :
             Truthy(Get(d.artists)[i].characters) =>
                \A j \in 1..Len(Get(Get(d.artists)[i].characters)) :
                   ~IsNone(Get(Get(d.artists)[i].characters)[j].id)

\* C1: Song.from_data fails if and only if the raw record lacks 'id' (given that
\* every present sub-record carries its id): without 'id' it raises KeyError
\* and returns no Song, and with 'id' any combination of absent optional keys
\* yields a Song and no error.
C1_FailsIffIdMissing ==
    (calledAt >= 0 /\ SubIdsPresent(data)) =>
        /\ IsNone(data.id) => (err = "KeyError" /\ IsNone(song))
        /\ ~IsNone(data.id) => (err = "none" /\ ~IsNone(song))

\* C2: Song._sanitise is idempotent, _sanitise(_sanitise(x)) = _sanitise(x) for
\* every string x, and None is passed through as None.
C2_SanitiseIdempotent ==
    /\ (~IsNone(once) /\ IsNone(word)) => IsNone(Get(once))
    /\ ~IsNone(twice) => Get(twice) = Get(once)

\* the display name of the claims: the preferred name if present, otherwise the other
PreferredName(item, prefer_romanized) ==
    IF prefer_romanized
    THEN (IF Truthy(item.name_romaji) THEN item.name_romaji ELSE item.name)
    ELSE (IF Truthy(item.name) THEN item.name ELSE item.name_romaji)

RECURSIVE PreferredEntries(_, _)
\* one entry per item that has a name at all, in list order
PreferredEntries(lst, prefer_romanized) ==
    IF lst = <<>> THEN <<>>
    ELSE LET name == PreferredName(Head(lst), prefer_romanized)
         IN (IF Truthy(name) THEN <<Get(name)>> ELSE <<>>)
            \o PreferredEntries(Tail(lst), prefer_romanized)

PreferredJoin(lst, prefer_romanized) ==
    IF ~Truthy(lst) THEN None
    ELSE Some(StrJoin(Sep, PreferredEntries(Get(lst), prefer_romanized)))

\* C3: the name preference is symmetric and the same for artists, sources and
\* albums: the romanized name if preferred and present, else the localized one;
\* the localized name if preferred and present, else the romanized one. An entry
\* is left out of the joined string only when both names are absent.
C3_SymmetricPreference ==
    /\ call.op = "sources_to_string" => out = PreferredJoin(Get(song).sources, call.flag)
    /\ call.op = "albums_to_string" => out = PreferredJoin(Get(song).albums, call.flag)
    /\ (call.op = "artists_to_string" /\ ~Truthy(Get(song).characters)) =>
          out = PreferredJoin(Get(song).artists, call.flag)

\* the characters of the song whose id is among the artist's placeholders
VoicedBy(artist, characters) ==
    IF ~Truthy(artist.character) \/ ~Truthy(characters) THEN {}
    ELSE {Get(characters)[i] : i \in
            {i \in 1..Len(Get(characters)) :
                \E j \in 1..Len(Get(artist.character)) :
                   Get(artist.character)[j].id = Get(characters)[i].id}}

\* the entry C4 states for one artist, as a list of none or one string: it is
\* left out when a name it is made of is absent
StatedEntries(artist, characters, prefer_romanized) ==
    LET name == PreferredName(artist, prefer_romanized)
    IN IF ~Truthy(artist.character)
       THEN {IF Truthy(name) THEN <<Get(name)>> ELSE <<>>}
       ELSE {IF Truthy(name) /\ Truthy(PreferredName(c, prefer_romanized))
             THEN <<CvEntry(Get(PreferredName(c, prefer_romanized)), Get(name))>>
             ELSE <<>> : c \in VoicedBy(artist, characters)}

RECURSIVE StatedEntryLists(_, _, _)
StatedEntryLists(artists, characters, prefer_romanized) ==
    IF artists = <<>> THEN {<<>>}
    ELSE {e \o rest : e \in StatedEntries(Head(artists), characters, prefer_romanized),
                      rest \in StatedEntryLists(Tail(artists), characters, prefer_romanized)}

\* every artist either voices no character or has a placeholder whose id resolves
EveryLinkResolves(s) ==
    Truthy(s.artists) =>
        \A i \in 1..Len(Get(s.artists)) :
            \/ ~Truthy(Get(s.artists)[i].character)
            \/ VoicedBy(Get(s.artists)[i], s.characters) # {}

\* C4: on a song with characters, artists_to_string emits for each artist, in
\* list order, '<character display name> (CV: <artist display name>)' when a
\* placeholder of the artist resolves in the song's character list and the bare
\* artist display name when the artist voices no character, joined with the
\* separator; the result is None when the artist list is absent or empty.
C4_ArtistEntries ==
    call.op = "artists_to_string" =>
        /\ ~Truthy(Get(song).artists) => out = None
        /\ (Truthy(Get(song).artists) /\ Truthy(Get(song).characters)
              /\ EveryLinkResolves(Get(song))) =>
              \E l \in StatedEntryLists(Get(Get(song).artists), Get(song).characters, call.flag) :
                 out = Some(StrJoin(Sep, l))

Names(item) == {Get(n) : n \in {m \in {item.name, item.name_romaji} : Truthy(m)}}

\* what an artist may contribute without taking a character from another artist:
\* nothing, its own name, or '<X> (CV: <artist>)' with X a name of a character
\* whose id is among the artist's own placeholders
OwnEntries(artist, characters) ==
    {<<>>}
    \cup {<<n>> : n \in Names(artist)}
    \cup UNION {{<<CvEntry(x, n)>> : x \in Names(c), n \in Names(artist)} :
                  c \in VoicedBy(artist, characters)}

RECURSIVE OwnEntryLists(_, _)
OwnEntryLists(artists, characters) ==
    IF artists = <<>> THEN {<<>>}
    ELSE {e \o rest : e \in OwnEntries(Head(artists), characters),
                      rest \in OwnEntryLists(Tail(artists), characters)}

\* C10: artists_to_string leaks no character name from one artist to another: a
\* '<X> (CV: <artist>)' entry is emitted only if X names a character of the song
\* whose id is among that artist's own placeholders.
C10_NoCharacterLeak ==
    (call.op = "artists_to_string" /\ Truthy(Get(song).artists)) =>
        \E l \in OwnEntryLists(Get(Get(song).artists), Get(song).characters) :
            out = Some(StrJoin(Sep, l))

\* the list an image method reads
ImageList(s, op) ==
    CASE op = "artist_image" -> s.artists
      [] op = "source_image" -> s.sources
      [] op = "album_image" -> s.albums

ImageOps == {"artist_image", "source_image", "album_image"}

\* C5: first-gap-stops. The image methods return the first entry's image (its
\* url when asked for the url, else its name) if the first entry has one, and
\* None if the list is absent, empty, or its first entry has no image, even when
\* a later entry has one.
C5_FirstGapStops ==
    call.op \in ImageOps =>
        LET lst == ImageList(Get(song), call.op)
        IN IF Truthy(lst) /\ ~IsNone(Get(lst)[1].image)
           THEN out = Some(IF call.flag THEN Get(Get(lst)[1].image).url
                           ELSE Get(Get(lst)[1].image).name)
           ELSE out = None

\* album_image was called on albums whose first entry has no image and whose
\* second has one
C5_Witness ==
    /\ call.op = "album_image"
    /\ Truthy(Get(song).albums)
    /\ Len(Get(Get(song).albums)) >= 2
    /\ IsNone(Get(Get(song).albums)[1].image)
    /\ ~IsNone(Get(Get(song).albums)[2].image)
    /\ out = None

Abs(x) == IF x < 0 THEN -x ELSE x

\* the raw duration in seconds, 0 when the record has none
RawDuration(d) == IF IsNone(d.duration) THEN 0 ELSE Get(d.duration)

\* C6: the time_end of a Song normalised at clock reading T is T + duration
\* rounded to whole seconds (T rounded when the record has no duration), and it
\* is computed from the clock at every call: the time_end of two normalisations
\* of the same record differ by the time between the calls, within rounding.
C6_ExpiryFromClock ==
    ~IsNone(song) =>
        /\ 2 * Abs(ClockRes * Get(song).time_end - (calledAt + ClockRes * RawDuration(data)))
              <= ClockRes
        /\ ~IsNone(prev) =>
              Abs(ClockRes * (Get(song).time_end - Get(prev).time_end)
                  - (calledAt - Get(prev).calledAt)) <= ClockRes

\* a record with a duration was normalised twice, the second time a whole
\* second or more after the first
C6_Witness ==
    /\ ~IsNone(song)
    /\ ~IsNone(prev)
    /\ TruthyInt(data.duration)
    /\ calledAt >= Get(prev).calledAt + ClockRes
    /\ Get(song).time_end > Get(prev).time_end

Forbidden == {"U200B", "U3099", "U309A"}

\* what the claims state of a sanitised string: U+3099 becomes U+309B, U+309A
\* becomes U+309C, U+200B is dropped, every other character stays in place
Cleaned(w) ==
    LET mapped == [i \in 1..Len(w) |->
                     IF w[i] = "U3099" THEN "U309B"
                     ELSE IF w[i] = "U309A" THEN "U309C" ELSE w[i]]
        Keep(c) == c # "U200B"
    IN SelectSeq(mapped, Keep)

\* the normalised name `name` of the raw name `raw`
CleanName(raw, name) ==
    /\ ~IsNone(name) => \A i \in 1..Len(Get(name)) : Get(name)[i] \notin Forbidden
    /\ Truthy(raw) => name = Some(Cleaned(Get(raw)))

\* the k-th list of the Song s: sources, artists, albums, characters
SongLists(s) == <<s.sources, s.artists, s.albums, s.characters>>

\* C7: after normalisation the title and the localized name of every source,
\* artist, album and character hold no U+200B, U+3099 or U+309A: each U+3099 of
\* the raw value became U+309B, each U+309A U+309C, each U+200B was dropped
\* and the other characters kept their order.
C7_NamesSanitised ==
    ~IsNone(song) =>
        /\ CleanName(data.title, Get(song).title)
        /\ \A k \in 1..4 :
              Truthy(Lists(data)[k]) =>
                 /\ Truthy(SongLists(Get(song))[k])
                 /\ Len(Get(SongLists(Get(song))[k])) = Len(Get(Lists(data)[k]))
                 /\ \A i \in 1..Len(Get(Lists(data)[k])) :
                       CleanName(Get(Lists(data)[k])[i].name,
                                 Get(SongLists(Get(song))[k])[i].name)

\* a raw title and raw names holding all three characters and another one were
\* normalised
C7_Witness ==
    /\ ~IsNone(song)
    /\ Truthy(data.title)
    /\ {"U200B", "U3099", "a"} \subseteq {Get(data.title)[i] : i \in 1..Len(Get(data.title))}
    /\ \A k \in 1..4 :
          /\ Truthy(Lists(data)[k])
          /\ Get(Lists(data)[k])[1].name = data.title
    /\ Get(song).title = Some(Cleaned(Get(data.title)))

\* the ids and the order of the songs a SystemFeed and a ListenWsData wrap
SongsPreserved ==
    /\ ~IsNone(feed) => Get(feed).song.id = Get(Get(feedData.song).id)
    /\ ~IsNone(ws) =>
          /\ Get(ws).song.id = Get(Get(frame.song).id)
          /\ Len(Get(ws).last_played) = Len(Get(frame.lastPlayed))
          /\ \A i \in 1..Len(Get(frame.lastPlayed)) :
                Get(ws).last_played[i].id = Get(Get(frame.lastPlayed)[i].id)

\* C8 as stated: the wrappers keep the ids and the order of the songs, and the
\* requester is absent exactly when the raw requester sub-record is absent.
C8_AsStated ==
    /\ SongsPreserved
    /\ ~IsNone(ws) => (IsNone(Get(ws).requester) <=> IsNone(frame.requester))

\* C8: SystemFeed.from_data keeps the id of its song; ListenWsData.from_data
\* keeps the id of the current song and the length, ids and order of lastPlayed
\* (nothing reordered, nothing deduplicated); the requester is absent exactly
\* when the raw requester sub-record is absent or an empty record.
C8_WrappersPreserveSongs ==
    /\ SongsPreserved
    /\ ~IsNone(ws) =>
          (IsNone(Get(ws).requester) <=>
              (IsNone(frame.requester) \/ EmptyDict(Get(frame.requester))))

\* a frame whose history repeats a song and holds another one, and whose
\* requester is an empty record, was normalised
C8_Witness ==
    /\ ~IsNone(ws)
    /\ Len(Get(ws).last_played) = 3
    /\ Get(ws).last_played[1].id = 2
    /\ Get(ws).last_played[2].id = 1
    /\ Get(ws).last_played[3].id = 2
    /\ ~IsNone(frame.requester)
    /\ IsNone(Get(ws).requester)

\* the romanized names of the k-th list of the Song s are the raw ones
RomajiKept(d, s, k) ==
    Truthy(Lists(d)[k]) =>
        \A i \in 1..Len(Get(Lists(d)[k])) :
            Get(SongLists(s)[k])[i].name_romaji = Get(Lists(d)[k])[i].nameRomaji

\* the romanized names of the k-th list of the Song s are the raw ones sanitised
RomajiCleaned(d, s, k) ==
    Truthy(Lists(d)[k]) =>
        \A i \in 1..Len(Get(Lists(d)[k])) :
            Get(SongLists(s)[k])[i].name_romaji =
                IF Truthy(Get(Lists(d)[k])[i].nameRomaji)
                THEN Some(Cleaned(Get(Get(Lists(d)[k])[i].nameRomaji)))
                ELSE None

\* a non-empty titleRomaji is carried as it is
TitleRomajiKept(d, s) == Truthy(d.titleRomaji) => s.title_romaji = d.titleRomaji

\* the localized names of the k-th list are sanitised
NamesCleaned(d, s, k) ==
    Truthy(Lists(d)[k]) =>
        \A i \in 1..Len(Get(Lists(d)[k])) :
            CleanName(Get(Lists(d)[k])[i].name, Get(SongLists(s)[k])[i].name)

\* C9 as stated: normalisation leaves the romanized name of every source and of
\* every album as the raw nameRomaji, character for character, and the
\* titleRomaji too; only their localized names are sanitised.
C9_AsStated ==
    ~IsNone(song) =>
        /\ RomajiKept(data, Get(song), 1)
        /\ RomajiKept(data, Get(song), 3)
        /\ TitleRomajiKept(data, Get(song))
        /\ NamesCleaned(data, Get(song), 1)
        /\ NamesCleaned(data, Get(song), 3)

\* C9: normalisation leaves the romanized name of every source as the raw
\* nameRomaji, character for character, and carries a non-empty titleRomaji as
\* it is; the romanized name of an album is sanitised like its localized name.
C9_RomajiOfSourcesKept ==
    ~IsNone(song) =>
        /\ RomajiKept(data, Get(song), 1)
        /\ RomajiCleaned(data, Get(song), 3)
        /\ TitleRomajiKept(data, Get(song))
        /\ NamesCleaned(data, Get(song), 1)
        /\ NamesCleaned(data, Get(song), 3)

\* a source and an album whose romanized names hold U+3099 and U+200B were
\* normalised: the source kept them, the album did not
C9_Witness ==
    /\ ~IsNone(song)
    /\ Truthy(data.sources) /\ Truthy(data.albums)
    /\ Truthy(Get(data.sources)[1].nameRomaji)
    /\ {"U3099", "U200B"} \subseteq
          {Get(Get(data.sources)[1].nameRomaji)[i] :
              i \in 1..Len(Get(Get(data.sources)[1].nameRomaji))}
    /\ Get(data.albums)[1].nameRomaji = Get(data.sources)[1].nameRomaji
    /\ Get(Get(song).sources)[1].name_romaji = Get(data.sources)[1].nameRomaji
    /\ Get(Get(song).albums)[1].name_romaji # Get(data.albums)[1].nameRomaji

====
